---- MODULE Spec2Model ----
(***************************************************************************)
(* Model of the cgp toolbox's two coordination cores:                      *)
(*   - the job lease coordinator of cgp/GPmapsims/GPutils.py (find_jobID,  *)
(*     end_jobID) driven by the batch loop of cgp/GPmapsims/array_cGPsim.py*)
(*   - the named view (Recarraylink) and the scoped override context       *)
(*     (Namedcvodeint.autorestore) of cgp/cvodeint/namedcvodeint.py.       *)
(***************************************************************************)
EXTENDS Integers, Sequences, FiniteSets, TLC

\* ------------------------------------------------------------------ bounds
\* Number of batch-driver processes sharing one jobfile.
NWorkers == 2
\* d['Nsims'] of the concurrent runs.
NsimsMany == 2
\* Largest d['Nsims'] tried in the single-worker runs.
NsimsSolo == 11
\* Field values range over 0..MaxVal.
MaxVal == 1
\* Largest number of named overrides in one autorestore call.
MaxKw == 2
\* Largest number of root functions a body installs with RootInit.
MaxRoots == 1
\* Largest resistance R, parameter value and working-state value used with
\* dynclamp.
MaxScale == 2

VARIABLES
    d,            \* the settings dict: [jobfile, errorfile, lockfile], each a
                  \* path [dir, name], and SimID, a directory; a name is the
                  \* sequence of its characters
    Nsims,        \* d['Nsims']: total number of jobs
    jobfile,      \* d['jobfile']: [exists, text], text a sequence of decimal digits
    timeout,      \* ids k whose file "<jobfile>_timeout_<k>" exists
    error,        \* ids k whose file "<errorfile>_<k>.pickle" exists
    redone,       \* ids k whose file "<jobfile>_redone_<k>.pickle" exists
    lock,         \* holder of Lock(d['lockfile']); 0 when free
    pc,           \* per worker: the statement it executes next
    jobID,        \* per worker: the local variable jobID
    issued,       \* history: ids find_jobID has returned so far
    completed,    \* history: ids released by end_jobID after a successful replicate
    quiet,        \* history: the worker the sentinel was last returned to, 0 once
                  \* a marker has been created since (and before any sentinel)
    created,      \* history: the workers whose find_jobID call has written the
                  \* jobfile and has not obtained the lock yet
    dtype,        \* self.dtype: [y, p], the field names of state and parameters
    bound,        \* [y, yr, pr]: whether self.y, self.yr, self.pr is the object
                  \* kept in self.originals ("original") or another ("other")
    cvode_y,      \* the buffer the model was constructed with (the solver's and
                  \* Recarraylink._x) once self.y is another object; <<>> before
    y,            \* self.y, which is also Recarraylink._x: the live state buffer
    _xa,          \* Recarraylink._xa, the array that the record view _xr shows
    yr_dict,      \* instance attributes of self.yr set by the pass-through
    pr,           \* self.pr: the parameter record
    roots,        \* number of root functions active in the solver
    scope,        \* "out"; "kwargs" while autorestore goes through its keyword
                  \* arguments; "body" while the body of the with statement runs;
                  \* "returning" or "raising" inside the finally clause
    kwargs_done,  \* the keyword arguments that loop has gone through
    args,         \* _p, _y and the kwargs items applied so far by the call of
                  \* autorestore whose loop is running
    oldy,         \* local oldy of the open autorestore, <<>> when none is open
    oldpar,       \* local oldpar of the open autorestore, <<>> when none is open
    y0,           \* history: self.y when autorestore was called, until the
                  \* code after the call goes on
    p0,           \* history: self.pr when autorestore was called, likewise
    outcome,      \* history: how the autorestore call that has just ended ended
    dirty,        \* history: whether the body of that call left the state or the
                  \* parameters different from the snapshot
    wrote,        \* history: <<field, value, whether _xa differed from the
                  \* buffer before>> of a named write just made
    read,         \* history: <<name, value returned, wrote, whether _xa differed
                  \* from the buffer before, lastset>> of a named read just made
    lastset,      \* history: the last operation made through the view was a
                  \* named write of a field
    clamped,      \* the model derived by clamp or dynclamp: [kind, kw, open,
                  \* written, pwrote, v, rhs, dyn], kw the clamped fields and their values,
                  \* open while the body of the with statement runs, written
                  \* (history) once the body has written its state by name,
                  \* pwrote (history) <<name, value>> of the last parameter
                  \* written through the derived model; kind "none" before any;
                  \* v the variable v that the right-hand side made by clamp
                  \* reads; rhs (history) <<working state, array passed to
                  \* the origin's right-hand side, working state afterwards,
                  \* the origin's derivatives, the derivatives returned, the
                  \* origin's status, the status returned>> of the last call
                  \* of its right-hand side; dyn, for dynclamp, [setpoint, R,
                  \* iV, iion, given, scale]: the arguments, the indices of
                  \* V and ion, the scale argument and the scale used
    clamped_y,    \* clamped.y, the derived model's own state buffer
    clamped_xa,   \* clamped.yr._xa
    asked         \* history: the state field names passed to the clamp or
                  \* dynclamp call just made

jobVars == <<d, Nsims, jobfile, timeout, error, redone, lock, pc, jobID,
             issued, completed, quiet, created>>

viewVars == <<args, dtype, bound, cvode_y, y, _xa, yr_dict, pr, roots, scope, kwargs_done, oldy, oldpar,
              y0, p0, outcome, dirty, wrote, read, lastset>>

clampVars == <<clamped, clamped_y, clamped_xa, asked>>

vars == <<jobVars, viewVars, clampVars>>

Workers == 1..NWorkers

\* ------------------------------------------------------- text of the jobfile
\* str(n) for n >= 0, as the sequence of its decimal digits.
RECURSIVE str(_)
str(n) == IF n < 10 THEN <<n>> ELSE Append(str(n \div 10), n % 10)

\* int(s) for a non-empty digit sequence; int('') raises ValueError.
RECURSIVE int(_)
int(s) == IF Len(s) = 1 THEN s[1]
          ELSE 10 * int(SubSeq(s, 1, Len(s) - 1)) + s[Len(s)]

ValueError(s) == Len(s) = 0

\* open(path, "w"): the file exists and is empty from the open on.
OpenW == [exists |-> TRUE, text |-> <<>>]

\* f.write(s) flushed at close by a writer whose offset is 0: s replaces the
\* first Len(s) characters of whatever the file holds by then.
WriteClose(f, s) ==
    [exists |-> TRUE, text |-> s \o SubSeq(f.text, Len(s) + 1, Len(f.text))]

\* As touch, with no file created.
touchNothing(S, k) == S

\* touch(path): the file exists afterwards.
touch(S, k) == S \cup {k}

\* ------------------------------------------------------------- file names
\* The characters of the decimal digits; str(n) as characters.
Digits == <<"0", "1", "2", "3", "4", "5", "6", "7", "8", "9">>

strChars(n) == [i \in 1..Len(str(n)) |-> Digits[str(n)[i] + 1]]

\* d of the module's doctest:
\* dict(Nsims=3, jobfile='./job', lockfile='./lock', SimID='.', errorfile='./error')
Settings ==
    [jobfile   |-> [dir |-> ".", name |-> <<"j", "o", "b">>],
     errorfile |-> [dir |-> ".", name |-> <<"e", "r", "r", "o", "r">>],
     lockfile  |-> [dir |-> ".", name |-> <<"l", "o", "c", "k">>],
     SimID     |-> "."]

\* "%s_timeout_%s" % (d["jobfile"], jobID)
TimeoutPath(k) ==
    [dir |-> d.jobfile.dir,
     name |-> d.jobfile.name \o <<"_", "t", "i", "m", "e", "o", "u", "t", "_">> \o strChars(k)]

\* "%s_%s.pickle" % (d["errorfile"], jobID)
ErrorPath(k) ==
    [dir |-> d.errorfile.dir,
     name |-> d.errorfile.name \o <<"_">> \o strChars(k)
                  \o <<".", "p", "i", "c", "k", "l", "e">>]

\* "%s_redone_%s.pickle" % (d["jobfile"], jobID)
RedonePath(k) ==
    [dir |-> d.jobfile.dir,
     name |-> d.jobfile.name \o <<"_", "r", "e", "d", "o", "n", "e", "_">> \o strChars(k)
                  \o <<".", "p", "i", "c", "k", "l", "e">>]

\* os.listdir(dir): the names of the files the coordinator and the drivers
\* have in that directory.  The file of the lock is left out: its name holds
\* neither of the words the scan looks for.
listdir(dir) ==
    LET paths == {TimeoutPath(k) : k \in timeout} \cup {ErrorPath(k) : k \in error}
                 \cup {RedonePath(k) : k \in redone}
                 \cup (IF jobfile.exists THEN {d.jobfile} ELSE {})
    IN  {path.name : path \in {q \in paths : q.dir = dir}}

\* word in file
In(word, file) ==
    \E i \in 1..(Len(file) - Len(word) + 1) : SubSeq(file, i, i + Len(word) - 1) = word

\* int(file.split('_')[-1].split('.')[0]) for a name whose piece between the
\* last underscore and the next dot is made of digits.
FileID(file) ==
    LET under == {i \in 1..Len(file) : file[i] = "_"}
        last == IF under = {} THEN file
                ELSE SubSeq(file, (CHOOSE i \in under : \A j \in under : j <= i) + 1, Len(file))
        dots == {i \in 1..Len(last) : last[i] = "."}
        first == IF dots = {} THEN last
                 ELSE SubSeq(last, 1, (CHOOSE i \in dots : \A j \in dots : i <= j) - 1)
    IN  int([i \in 1..Len(first) |-> CHOOSE k \in 0..9 : Digits[k + 1] = first[i]])

\* The ids the error loop and the timeout loop can take from one listing.
ErrorIDs(files) == {FileID(file) : file \in {f \in files : In(<<"e", "r", "r", "o", "r">>, f)}}

TimeoutIDs(files) ==
    {FileID(file) : file \in {f \in files :
                       In(<<"j", "o", "b", "_", "t", "i", "m", "e", "o", "u", "t">>, f)}}

\* ----------------------------------------------------------- find_jobID
\* if not os.path.exists(d['jobfile'])
CreateJobfileCheck(w) ==
    /\ pc[w] = "exists"
    /\ pc' = [pc EXCEPT ![w] = IF jobfile.exists THEN "lock" ELSE "create_open"]
    /\ UNCHANGED <<viewVars, clampVars, d, created, Nsims, jobfile, timeout, error, redone, lock, jobID,
                   issued, completed, quiet>>

\* with open(d['jobfile'], "w") as f
CreateJobfileOpen(w) ==
    /\ pc[w] = "create_open"
    /\ jobfile' = OpenW
    /\ created' = created \cup {w}
    /\ pc' = [pc EXCEPT ![w] = "create_write"]
    /\ UNCHANGED <<viewVars, clampVars, d, Nsims, timeout, error, redone, lock, jobID,
                   issued, completed, quiet>>

\* f.write('0'), flushed when the with block closes the file
CreateJobfileWrite(w) ==
    /\ pc[w] = "create_write"
    /\ jobfile' = WriteClose(jobfile, str(0))
    /\ pc' = [pc EXCEPT ![w] = "lock"]
    /\ UNCHANGED <<viewVars, clampVars, d, created, Nsims, timeout, error, redone, lock, jobID,
                   issued, completed, quiet>>

\* Lock(lockname=d['lockfile']): at most one holder.
LockFree == lock = 0

\* As LockEnter, with the critical section entered without the lock.
LockEnterUnguarded(w) ==
    /\ pc[w] = "lock"
    /\ created' = created \ {w}
    /\ pc' = [pc EXCEPT ![w] = "read"]
    /\ UNCHANGED <<viewVars, clampVars, d, Nsims, jobfile, timeout, error, redone, lock, jobID,
                   issued, completed, quiet>>

\* with Lock(lockname=d['lockfile'], retry_delay=0.2, max_wait=100)
LockEnter(w) ==
    /\ pc[w] = "lock"
    /\ LockFree
    /\ lock' = w
    /\ created' = created \ {w}
    /\ pc' = [pc EXCEPT ![w] = "read"]
    /\ UNCHANGED <<viewVars, clampVars, d, Nsims, jobfile, timeout, error, redone, jobID,
                   issued, completed, quiet>>

\* Lock.__enter__ gives up once max_wait has passed with the lock held by
\* another: the fault leaves find_jobID and ends the driver, which calls
\* find_jobID outside its try block.  How long the holder keeps the lock is
\* not modelled, so the fault can come whenever the lock is held.
LockTimeout(w) ==
    /\ pc[w] = "lock"
    /\ ~LockFree
    /\ pc' = [pc EXCEPT ![w] = "locktimeout"]
    /\ UNCHANGED <<viewVars, clampVars, d, created, Nsims, jobfile, timeout, error, redone, lock,
                   jobID, issued, completed, quiet>>

\* jobID = int(f.read()); a ValueError leaves the with block (releasing the
\* lock) and find_jobID, and ends the driver, which calls it outside its try.
ReadJobfile(w) ==
    /\ pc[w] = "read"
    /\ IF ValueError(jobfile.text)
       THEN /\ pc' = [pc EXCEPT ![w] = "crashed"]
            /\ lock' = 0
            /\ UNCHANGED jobID
       ELSE /\ jobID' = [jobID EXCEPT ![w] = int(jobfile.text)]
            /\ pc' = [pc EXCEPT ![w] =
                        IF int(jobfile.text) < Nsims THEN "fp_open" ELSE "scan"]
            /\ UNCHANGED lock
    /\ UNCHANGED <<viewVars, clampVars, d, created, Nsims, jobfile, timeout, error, redone, issued, completed, quiet>>

\* if jobID < Nsims: with open(d['jobfile'], "w") as f
FirstPassOpen(w) ==
    /\ pc[w] = "fp_open"
    /\ jobfile' = OpenW
    /\ pc' = [pc EXCEPT ![w] = "fp_touch"]
    /\ UNCHANGED <<viewVars, clampVars, d, created, Nsims, timeout, error, redone, lock, jobID,
                   issued, completed, quiet>>

\* touch("%s_timeout_%s" % (d["jobfile"], jobID))
FirstPassTouch(w) ==
    /\ pc[w] = "fp_touch"
    /\ timeout' = touch(timeout, jobID[w])
    /\ quiet' = 0
    /\ pc' = [pc EXCEPT ![w] = "fp_write"]
    /\ UNCHANGED <<viewVars, clampVars, d, created, Nsims, jobfile, error, redone, lock, jobID, issued, completed>>

\* As NextCounter, with the increment forgotten.
NextCounterSame(k) == str(k)

\* The text find_jobID leaves in the jobfile after handing out id k.
NextCounter(k) == str(k + 1)

\* f.write(str(jobID+1)), flushed when the with block closes the file
FirstPassWrite(w) ==
    /\ pc[w] = "fp_write"
    /\ jobfile' = WriteClose(jobfile, NextCounter(jobID[w]))
    /\ pc' = [pc EXCEPT ![w] = "return"]
    /\ UNCHANGED <<viewVars, clampVars, d, created, Nsims, timeout, error, redone, lock, jobID,
                   issued, completed, quiet>>

\* As RedoChoices, with the timeout loop run before the error loop.
RedoChoicesTimeoutFirst(counter, errfiles, tofiles, n) ==
    IF tofiles # {} THEN { <<k, "to_touch">> : k \in tofiles }
    ELSE IF errfiles # {} THEN { <<k, "err_touch">> : k \in errfiles }
    ELSE {<<n, "return">>}

\* As RedoChoices, with the timeout loop left out.
RedoChoicesNoTimeout(counter, errfiles, tofiles, n) ==
    IF errfiles # {} THEN { <<k, "err_touch">> : k \in errfiles }
    ELSE {<<n, "return">>}

\* As RedoChoices, with both redo loops left out.
RedoChoicesNoRedo(counter, errfiles, tofiles, n) == {<<n, "return">>}

\* The redo decision of one call, from one os.listdir(d['SimID']):
\*   for file in files: if 'error' in file: jobID = <its id>; break
\*   if jobID < Nsims: error redo
\*   else: for file in files: if 'job_timeout' in file: jobID = <its id>
\*   if jobID < Nsims: timeout redo  else: return d['Nsims']
\* np.random.shuffle(files) makes the file taken by either loop any matching one.
\* The result is <<value to return, next statement>>.
RedoChoices(counter, errfiles, tofiles, n) ==
    LET afterError == IF errfiles = {} THEN {counter} ELSE errfiles
        afterTimeout(j) == IF tofiles = {} THEN {j} ELSE tofiles
    IN  UNION { IF j < n THEN {<<j, "err_touch">>}
                ELSE { IF k < n THEN <<k, "to_touch">> ELSE <<n, "return">> :
                          k \in afterTimeout(j) } : j \in afterError }

ScanRedo(w) ==
    /\ pc[w] = "scan"
    /\ \E c \in RedoChoices(jobID[w], ErrorIDs(listdir(d.SimID)),
                              TimeoutIDs(listdir(d.SimID)), Nsims) :
          /\ jobID' = [jobID EXCEPT ![w] = c[1]]
          /\ pc' = [pc EXCEPT ![w] = c[2]]
          /\ quiet' = IF c[2] = "return" THEN w ELSE quiet
    /\ UNCHANGED <<viewVars, clampVars, d, created, Nsims, jobfile, timeout, error, redone, lock, issued, completed>>

\* touch("%s_timeout_%s" % (d["jobfile"], jobID)) of the error redo
ErrorRedoTouch(w) ==
    /\ pc[w] = "err_touch"
    /\ timeout' = touch(timeout, jobID[w])
    /\ quiet' = 0
    /\ pc' = [pc EXCEPT ![w] = "err_move"]
    /\ UNCHANGED <<viewVars, clampVars, d, created, Nsims, jobfile, error, redone, lock, jobID, issued, completed>>

\* As ErrorRedoMove, with the error file copied instead of moved.
ErrorRedoCopy(w) ==
    /\ pc[w] = "err_move"
    /\ redone' = redone \cup {jobID[w]}
    /\ pc' = [pc EXCEPT ![w] = "return"]
    /\ UNCHANGED <<viewVars, clampVars, d, created, Nsims, jobfile, timeout, error, lock, jobID, issued, completed, quiet>>

\* shutil.move("<errorfile>_<jobID>.pickle", "<jobfile>_redone_<jobID>.pickle")
ErrorRedoMove(w) ==
    /\ pc[w] = "err_move"
    /\ error' = error \ {jobID[w]}
    /\ redone' = redone \cup {jobID[w]}
    /\ pc' = [pc EXCEPT ![w] = "return"]
    /\ UNCHANGED <<viewVars, clampVars, d, created, Nsims, jobfile, timeout, lock, jobID, issued, completed, quiet>>

\* touch("%s_timeout_%s" % (d["jobfile"], jobID)) of the timeout redo
TimeoutRedoTouch(w) ==
    /\ pc[w] = "to_touch"
    /\ timeout' = touch(timeout, jobID[w])
    /\ quiet' = 0
    /\ pc' = [pc EXCEPT ![w] = "return"]
    /\ UNCHANGED <<viewVars, clampVars, d, created, Nsims, jobfile, error, redone, lock, jobID, issued, completed>>

\* return jobID / return d['Nsims']: the with block releases the lock; the
\* driver goes on with "if jobID < int(d['Nsims'])" and its while condition.
LockExit(w) ==
    /\ pc[w] = "return"
    /\ lock' = 0
    /\ pc' = [pc EXCEPT ![w] = IF jobID[w] < Nsims THEN "work" ELSE "done"]
    /\ issued' = IF jobID[w] < Nsims THEN issued \cup {jobID[w]} ELSE issued
    /\ UNCHANGED <<viewVars, clampVars, d, created, Nsims, jobfile, timeout, error, redone, jobID, completed, quiet>>

\* ------------------------------------------------------------ batch driver
\* As end_jobID, with a missing timeout file ignored.
end_jobIDQuiet(w) ==
    /\ timeout' = timeout \ {jobID[w]}
    /\ completed' = completed \cup {jobID[w]}
    /\ pc' = [pc EXCEPT ![w] = "exists"]
    /\ UNCHANGED <<viewVars, clampVars, d, created, Nsims, jobfile, error, redone, lock, jobID, issued, quiet>>

\* end_jobID(d, jobID): os.remove of the timeout file, which raises OSError when
\* the file does not exist ("oserror": the driver, which calls it inside its try
\* block, runs its except block next).
end_jobID(w) ==
    /\ IF jobID[w] \in timeout
       THEN /\ timeout' = timeout \ {jobID[w]}
            /\ completed' = completed \cup {jobID[w]}
            /\ pc' = [pc EXCEPT ![w] = "exists"]
       ELSE /\ pc' = [pc EXCEPT ![w] = "oserror"]
            /\ UNCHANGED <<timeout, completed>>
    /\ UNCHANGED <<viewVars, clampVars, d, created, Nsims, jobfile, error, redone, lock, jobID, issued, quiet>>

\* try: the replicate is computed and its results written, then end_jobID.
ReplicateDone(w) ==
    /\ pc[w] = "work"
    /\ end_jobID(w)

\* try: the replicate raises ("raised": the except block is next).
ReplicateRaises(w) ==
    /\ pc[w] = "work"
    /\ pc' = [pc EXCEPT ![w] = "raised"]
    /\ UNCHANGED <<viewVars, clampVars, d, created, Nsims, jobfile, timeout, error, redone, lock, jobID,
                   issued, completed, quiet>>

\* As WriteErrorfile, with the handler removing the timeout file instead of
\* writing the error file.
WriteErrorfileDropsLease(w) ==
    /\ pc[w] \in {"raised", "oserror"}
    /\ timeout' = timeout \ {jobID[w]}
    /\ pc' = [pc EXCEPT ![w] = "exists"]
    /\ UNCHANGED <<viewVars, clampVars, d, created, Nsims, jobfile, error, redone, lock, jobID,
                   issued, completed, quiet>>

\* As WriteErrorfile, with the exception ending the driver once the error file
\* is written.
WriteErrorfileEndsBatch(w) ==
    /\ pc[w] \in {"raised", "oserror"}
    /\ error' = error \cup {jobID[w]}
    /\ quiet' = 0
    /\ pc' = [pc EXCEPT ![w] = "crashed"]
    /\ UNCHANGED <<viewVars, clampVars, d, created, Nsims, jobfile, timeout, redone, lock, jobID, issued, completed>>

\* except: with open("%s_%s.pickle" % (d["errorfile"], jobID), 'w') as f: ...
\* and the while loop calls find_jobID again.
WriteErrorfile(w) ==
    /\ pc[w] \in {"raised", "oserror"}
    /\ error' = error \cup {jobID[w]}
    /\ quiet' = 0
    /\ pc' = [pc EXCEPT ![w] = "exists"]
    /\ UNCHANGED <<viewVars, clampVars, d, created, Nsims, jobfile, timeout, redone, lock, jobID, issued, completed>>

\* A further array task runs the driver script in the place of one that has
\* left its while loop: jobID = 0, and find_jobID is called.
TaskStart(w) ==
    /\ pc[w] = "done"
    /\ pc' = [pc EXCEPT ![w] = "exists"]
    /\ jobID' = [jobID EXCEPT ![w] = 0]
    /\ UNCHANGED <<viewVars, clampVars, d, created, Nsims, jobfile, timeout, error, redone, lock,
                   issued, completed, quiet>>

\* ------------------------------------------------------- named vectors
Values == 0..MaxVal

\* Names passed as keyword arguments: the fields of the layouts below and one
\* name that is a field of none.
Keys == {"x", "y", "epsilon", "nosuch"}

\* Names used as attributes of self.yr: the state fields and one other name.
Attrs == {"x", "y", "nosuch"}

\* The van der Pol example (state x, y; parameter epsilon), and a model whose
\* only parameter has the name of a state variable.
Dtypes ==
    { [y |-> <<"x", "y">>, p |-> <<"epsilon">>],
      [y |-> <<"x", "y">>, p |-> <<"x">>] }

\* dtype.names as a set.
names(fields) == { fields[i] : i \in DOMAIN fields }

\* All arrays with one value per field.
Arrays(fields) == [DOMAIN fields -> Values]

\* Position of field k in the layout.
offset(fields, k) == CHOOSE i \in DOMAIN fields : fields[i] = k

\* a[k] = v on a record array / record view with the given fields.
setfield(a, fields, k, v) == [a EXCEPT ![offset(fields, k)] = v]

\* a[k] on a record array / record view with the given fields.
getfield(a, fields, k) == a[offset(fields, k)]

\* -------------------------------------------------------- Recarraylink
\* As __setattr__, without the refresh of _xa from _x before the field is set.
__setattr__Stale(x, xa, dict, fields, attr, val) ==
    IF attr \in names(fields)
    THEN [x |-> setfield(xa, fields, attr, val),
          xa |-> setfield(xa, fields, attr, val),
          dict |-> dict]
    ELSE [x |-> x, xa |-> xa, dict |-> (attr :> val) @@ dict]

\* As __setattr__, without the copy of _xa back to _x after the field is set.
__setattr__ViewOnly(x, xa, dict, fields, attr, val) ==
    IF attr \in names(fields)
    THEN [x |-> x, xa |-> setfield(x, fields, attr, val), dict |-> dict]
    ELSE [x |-> x, xa |-> x, dict |-> (attr :> val) @@ dict]

\* Recarraylink.__setattr__(attr, val) on a link with buffer x, array xa and
\* instance attributes dict:
\*   self._xa[:] = self._x; self._xr[attr] = val; self._x[:] = self._xa
\*   except ValueError: object.__setattr__(self, attr, val)
\* The ValueError of a name that is no field comes after the refresh.
__setattr__(x, xa, dict, fields, attr, val) ==
    IF attr \in names(fields)
    THEN [x |-> setfield(x, fields, attr, val),
          xa |-> setfield(x, fields, attr, val),
          dict |-> dict]
    ELSE [x |-> x, xa |-> x, dict |-> (attr :> val) @@ dict]

\* As __getattr__, without the refresh of _xa from _x before the field is read.
__getattr__Stale(x, xa, dict, fields, attr) ==
    IF attr \in DOMAIN dict THEN [xa |-> xa, ret |-> dict[attr]]
    ELSE IF attr \in names(fields)
         THEN [xa |-> xa, ret |-> getfield(xa, fields, attr)]
         ELSE [xa |-> xa, ret |-> "AttributeError"]

\* Attribute lookup self.yr.<attr>: an instance attribute is found without
\* __getattr__ being called; otherwise Recarraylink.__getattr__(attr):
\*   self._xa[:] = self._x; return self._xr[attr]
\*   except ValueError: super(Recarraylink, self).__getattr__(attr)
\* where object has no __getattr__, so that a name that is no field ends in an
\* AttributeError. The result is [xa, ret], ret the value or "AttributeError".
__getattr__(x, xa, dict, fields, attr) ==
    IF attr \in DOMAIN dict THEN [xa |-> xa, ret |-> dict[attr]]
    ELSE IF attr \in names(fields)
         THEN [xa |-> x, ret |-> getfield(x, fields, attr)]
         ELSE [xa |-> x, ret |-> "AttributeError"]

\* No instance attribute set.
NoAttributes == [k \in {} |-> 0]

\* No call of autorestore is going through its arguments.
NoArguments == [_p |-> <<>>, _y |-> <<>>, kwargs |-> NoAttributes]

\* self.originals = dict(pr=self.pr, y=self.y, yr=self.yr): every attribute is
\* the object the constructor bound it to.
Originals == [y |-> "original", yr |-> "original", pr |-> "original"]

\* Recarraylink._x of the link the constructor made: the buffer the model was
\* constructed with, which is self.y unless self.y has been rebound.
_x == IF bound.y = "original" THEN y ELSE cvode_y

\* That buffer's content becomes new.
Set_x(new) ==
    IF bound.y = "original"
    THEN y' = new /\ UNCHANGED cvode_y
    ELSE cvode_y' = new /\ UNCHANGED y

\* The code between a model's operations may act while no autorestore call is
\* being entered or left.
Idle == scope \in {"out", "body"}

\* The code after an autorestore call goes on: what the histories recorded
\* about the call is forgotten, unless its body is still running.
Forget ==
    /\ outcome' = "none"
    /\ dirty' = FALSE
    /\ y0' = IF scope = "body" THEN y0 ELSE <<>>
    /\ p0' = IF scope = "body" THEN p0 ELSE <<>>

\* self.yr.<attr> = val, self.yr being the link the constructor made
SetAttr(attr, val) ==
    /\ Idle
    /\ bound.yr = "original"
    /\ LET r == __setattr__(_x, _xa, yr_dict, dtype.y, attr, val)
       IN  /\ Set_x(r.x)
           /\ _xa' = r.xa
           /\ yr_dict' = r.dict
    /\ wrote' = IF attr \in names(dtype.y) THEN <<attr, val, _xa # _x>> ELSE <<>>
    /\ lastset' = (attr \in names(dtype.y))
    /\ read' = <<>>
    /\ Forget
    /\ UNCHANGED <<jobVars, clampVars, args, dtype, bound, pr, roots, scope, kwargs_done,
                   oldy, oldpar>>

\* self.yr.<attr>, self.yr being the link the constructor made
GetAttr(attr) ==
    /\ Idle
    /\ bound.yr = "original"
    /\ LET r == __getattr__(_x, _xa, yr_dict, dtype.y, attr)
       IN  /\ _xa' = r.xa
           /\ read' = <<attr, r.ret, wrote, _xa # _x, lastset>>
    /\ lastset' = FALSE
    /\ wrote' = <<>>
    /\ Forget
    /\ UNCHANGED <<jobVars, clampVars, args, dtype, bound, cvode_y, y, yr_dict, pr, roots, scope, kwargs_done,
                   oldy, oldpar>>

\* self.y[i] = val: the buffer is written directly, not through the view.
\* __array__(self): return self._xr, the record view of _xa; _xa is not
\* refreshed from _x first.
__array__(x, xa) == [xa |-> xa, ret |-> xa]

\* np.copy(model.yr), np.array(model.yr): the whole record through __array__.
ToArray ==
    /\ Idle
    /\ bound.yr = "original"
    /\ LET r == __array__(_x, _xa)
       IN  /\ _xa' = r.xa
           /\ read' = <<"__array__", r.ret, wrote, _xa # _x, lastset>>
    /\ lastset' = FALSE
    /\ wrote' = <<>>
    /\ Forget
    /\ UNCHANGED <<jobVars, clampVars, args, dtype, bound, cvode_y, y, yr_dict, pr, roots, scope, kwargs_done,
                   oldy, oldpar>>

WriteBuffer(i, val) ==
    /\ Idle
    /\ y' = [y EXCEPT ![i] = val]
    /\ wrote' = <<>>
    /\ read' = <<>>
    /\ Forget
    /\ UNCHANGED <<jobVars, clampVars, args, dtype, bound, cvode_y, _xa, yr_dict, pr, roots, scope, kwargs_done,
                   oldy, oldpar, lastset>>

\* self.pr[k] = val, self.pr.<k> = val
WriteParameter(k, val) ==
    /\ Idle
    /\ k \in names(dtype.p)
    /\ pr' = setfield(pr, dtype.p, k, val)
    /\ wrote' = <<>>
    /\ read' = <<>>
    /\ Forget
    /\ UNCHANGED <<jobVars, clampVars, args, dtype, bound, cvode_y, y, _xa, yr_dict, roots, scope, kwargs_done,
                   oldy, oldpar, lastset>>

\* Namedcvodeint.integrate():
\*   if not all(self.__dict__[k] is v for k, v in self.originals.items()):
\*       raise AssertionError(self.reassignwarning)
\*   t, Y, flag = super(Namedcvodeint, self).integrate(**kwargs)
\* The result is [y, fault]: the solver's buffer afterwards, final being the
\* state the solver ends in, and the fault raised.
Integrated(state, final) ==
    IF bound = Originals
    THEN [y |-> final, fault |-> "none"]
    ELSE [y |-> state, fault |-> "AssertionError"]

\* self.integrate(...)
Integrate(final) ==
    /\ Idle
    /\ LET r == Integrated(_x, final)
       IN  /\ Set_x(r.y)
           /\ outcome' = r.fault
    /\ wrote' = <<>>
    /\ read' = <<>>
    /\ dirty' = FALSE
    /\ y0' = IF scope = "body" THEN y0 ELSE <<>>
    /\ p0' = IF scope = "body" THEN p0 ELSE <<>>
    /\ UNCHANGED <<jobVars, clampVars, args, dtype, bound, _xa, yr_dict, pr, roots, scope, kwargs_done,
                   oldy, oldpar, lastset>>

\* Cvodeint.RootInit(nrtfn): nrtfn root functions are active afterwards, none
\* after RootInit(0).
RootInit(nrtfn) == nrtfn

\* self.RootInit(n) called by the code around or inside a scope.
SetRoots(n) ==
    /\ Idle
    /\ roots' = RootInit(n)
    /\ wrote' = <<>>
    /\ read' = <<>>
    /\ Forget
    /\ UNCHANGED <<jobVars, clampVars, args, dtype, bound, cvode_y, y, _xa, yr_dict, pr, scope, kwargs_done,
                   oldy, oldpar, lastset>>

\* self.y = ..., self.yr = ..., self.pr = ...: the attribute k is bound to
\* another object, holding content where it is an array; the object it was
\* bound to keeps its content.
Rebind(k, content) ==
    /\ Idle
    /\ bound' = [bound EXCEPT ![k] = "other"]
    /\ CASE k = "y" ->
             /\ content \in Arrays(dtype.y)
             /\ y' = content
             /\ cvode_y' = _x
             /\ UNCHANGED pr
         [] k = "pr" ->
             /\ content \in Arrays(dtype.p)
             /\ pr' = content
             /\ UNCHANGED <<y, cvode_y>>
         [] k = "yr" ->
             /\ content = <<>>
             /\ UNCHANGED <<y, cvode_y, pr>>
    /\ wrote' = <<>>
    /\ read' = <<>>
    /\ Forget
    /\ UNCHANGED <<jobVars, clampVars, args, dtype, _xa, yr_dict, roots, scope, kwargs_done,
                   oldy, oldpar, lastset>>

\* ----------------------------------------------------------- autorestore
\* As Snapshot, taken of the overridden vector instead of the current one.
SnapshotLate(current, overridden) == overridden

\* oldy, oldpar = np.copy(self.y), np.copy(self.pr): the first statement.
Snapshot(current, overridden) == current

\* with self.autorestore(_p, _y, **kwargs): the statements before the loop,
\*   oldy, oldpar = np.copy(self.y), np.copy(self.pr)
\*   if _p is not None: self.pr[:] = _p
\*   if _y is not None: self.y[:] = _y
\* None is written <<>>.
AutorestoreCall(_p, _y) ==
    /\ scope = "out"
    /\ oldy' = Snapshot(y, IF _y = <<>> THEN y ELSE _y)
    /\ oldpar' = Snapshot(pr, IF _p = <<>> THEN pr ELSE _p)
    /\ pr' = IF _p = <<>> THEN pr ELSE _p
    /\ y' = IF _y = <<>> THEN y ELSE _y
    /\ y0' = y
    /\ p0' = pr
    /\ scope' = "kwargs"
    /\ outcome' = "none"
    /\ dirty' = FALSE
    /\ wrote' = <<>>
    /\ read' = <<>>
    /\ args' = [_p |-> _p, _y |-> _y, kwargs |-> NoAttributes]
    /\ UNCHANGED <<jobVars, clampVars, dtype, bound, cvode_y, _xa, yr_dict, roots, kwargs_done, lastset>>

\* As AutorestoreNamed, with the wholesale overrides _p and _y applied on top
\* of the named one.
AutorestoreNamedBelow(k, v) ==
    /\ scope = "kwargs"
    /\ k \notin kwargs_done
    /\ Cardinality(kwargs_done) < MaxKw
    /\ IF k \in names(dtype.p) /\ k \notin names(dtype.y)
       THEN /\ pr' = IF args._p = <<>> THEN setfield(pr, dtype.p, k, v) ELSE args._p
            /\ kwargs_done' = kwargs_done \cup {k}
            /\ args' = [args EXCEPT !.kwargs = (k :> v) @@ @]
            /\ UNCHANGED <<y, cvode_y, _xa, yr_dict, scope, outcome, oldy, oldpar,
                           lastset>>
       ELSE IF k \in names(dtype.y) /\ k \notin names(dtype.p)
       THEN /\ LET r == __setattr__(_x, _xa, yr_dict, dtype.y, k, v)
               IN  /\ Set_x(IF args._y = <<>> THEN r.x ELSE args._y)
                   /\ _xa' = r.xa
                   /\ yr_dict' = r.dict
            /\ kwargs_done' = kwargs_done \cup {k}
            /\ args' = [args EXCEPT !.kwargs = (k :> v) @@ @]
            /\ lastset' = TRUE
            /\ UNCHANGED <<pr, scope, outcome, oldy, oldpar>>
       ELSE /\ scope' = "out"
            /\ outcome' = "TypeError"
            /\ oldy' = <<>>
            /\ oldpar' = <<>>
            /\ kwargs_done' = {}
            /\ args' = NoArguments
            /\ UNCHANGED <<y, cvode_y, _xa, yr_dict, pr, lastset>>
    /\ UNCHANGED <<jobVars, clampVars, dtype, bound, roots, y0, p0, dirty, wrote, read>>

\* One iteration of "for k, v in kwargs.items()", for a further keyword k:
\*   a name of a parameter only:       self.pr[k] = v
\*   a name of a state variable only:  setattr(self.yr, k, v), which reaches
\*     the model's buffers only if self.yr is the link the constructor made
\*   any other name: TypeError. The test "k not in [y.names + p.names]" looks
\*   for k in a list whose one element is the tuple of all names, which no
\*   name equals, so the first of the two raise statements is the one reached.
\* The TypeError is raised outside the try statement: it reaches the caller
\* without the finally clause being run.
AutorestoreNamed(k, v) ==
    /\ scope = "kwargs"
    /\ k \notin kwargs_done
    /\ Cardinality(kwargs_done) < MaxKw
    /\ IF k \in names(dtype.p) /\ k \notin names(dtype.y)
       THEN /\ pr' = setfield(pr, dtype.p, k, v)
            /\ kwargs_done' = kwargs_done \cup {k}
            /\ args' = [args EXCEPT !.kwargs = (k :> v) @@ @]
            /\ UNCHANGED <<y, cvode_y, _xa, yr_dict, scope, outcome, oldy, oldpar,
                           lastset>>
       ELSE IF k \in names(dtype.y) /\ k \notin names(dtype.p)
       THEN /\ IF bound.yr = "original"
               THEN LET r == __setattr__(_x, _xa, yr_dict, dtype.y, k, v)
                    IN  /\ Set_x(r.x)
                        /\ _xa' = r.xa
                        /\ yr_dict' = r.dict
               ELSE UNCHANGED <<y, cvode_y, _xa, yr_dict>>
            /\ kwargs_done' = kwargs_done \cup {k}
            /\ args' = [args EXCEPT !.kwargs = (k :> v) @@ @]
            /\ lastset' = TRUE
            /\ UNCHANGED <<pr, scope, outcome, oldy, oldpar>>
       ELSE /\ scope' = "out"
            /\ outcome' = "TypeError"
            /\ oldy' = <<>>
            /\ oldpar' = <<>>
            /\ kwargs_done' = {}
            /\ args' = NoArguments
            /\ UNCHANGED <<y, cvode_y, _xa, yr_dict, pr, lastset>>
    /\ UNCHANGED <<jobVars, clampVars, dtype, bound, roots, y0, p0, dirty, wrote, read>>

\* try: yield, once the loop has gone through all keyword arguments.
AutorestoreYield ==
    /\ scope = "kwargs"
    /\ scope' = "body"
    /\ kwargs_done' = {}
    /\ args' = NoArguments
    /\ UNCHANGED <<jobVars, clampVars, dtype, bound, cvode_y, y, _xa, yr_dict, pr, roots, oldy, oldpar,
                   y0, p0, outcome, dirty, wrote, read, lastset>>

\* As AutorestoreReset, with the buffers restored first and the reset left for
\* later.
AutorestoreRestoreFirst(raised) ==
    /\ scope = "body"
    /\ y' = oldy
    /\ pr' = oldpar
    /\ scope' = IF raised THEN "raising" ELSE "returning"
    /\ UNCHANGED <<jobVars, clampVars, args, dtype, bound, cvode_y, _xa, yr_dict, roots,
                   kwargs_done, oldy, oldpar, y0, p0, outcome, dirty, wrote, read, lastset>>

\* The body ends, by returning or by raising (raised); the first statement of
\* the finally clause: self.RootInit(0)
AutorestoreReset(raised) ==
    /\ scope = "body"
    /\ roots' = RootInit(0)
    /\ scope' = IF raised THEN "raising" ELSE "returning"
    /\ UNCHANGED <<jobVars, clampVars, args, dtype, bound, cvode_y, y, _xa, yr_dict, pr,
                   kwargs_done, oldy, oldpar, y0, p0, outcome, dirty, wrote, read, lastset>>

\* finally, first statement, when self.RootInit(0) raises: the exception
\* leaves the finally clause and the generator, the statement after it is not
\* run, and the caller gets the exception of RootInit.
AutorestoreResetFaults ==
    /\ scope = "body"
    /\ scope' = "out"
    /\ outcome' = "RootInit raised"
    /\ dirty' = (y # oldy \/ pr # oldpar)
    /\ oldy' = <<>>
    /\ oldpar' = <<>>
    /\ wrote' = <<>>
    /\ read' = <<>>
    /\ UNCHANGED <<jobVars, clampVars, args, dtype, bound, cvode_y, y, _xa, yr_dict, pr, roots,
                   kwargs_done, y0, p0, lastset>>

\* finally, second statement: self.y[:], self.pr[:] = oldy, oldpar
AutorestoreFinally ==
    /\ y' = oldy
    /\ pr' = oldpar
    /\ UNCHANGED roots

\* The finally clause ends and the scope is left, the body's exception, if
\* any, going on to the caller.
AutorestoreExit(raised) ==
    /\ scope = IF raised THEN "raising" ELSE "returning"
    /\ AutorestoreFinally
    /\ scope' = "out"
    /\ outcome' = IF raised THEN "raised" ELSE "returned"
    /\ dirty' = (y # oldy \/ pr # oldpar)
    /\ oldy' = <<>>
    /\ oldpar' = <<>>
    /\ wrote' = <<>>
    /\ read' = <<>>
    /\ UNCHANGED <<jobVars, clampVars, args, dtype, bound, cvode_y, _xa, yr_dict, kwargs_done, y0, p0, lastset>>

\* A model as its constructor leaves it: Recarraylink(self.y, y.dtype) copies
\* the buffer into _xa; no root function is active.
InitView(dt, state, parameters) ==
    /\ dtype = dt
    /\ args = NoArguments
    /\ bound = Originals
    /\ cvode_y = <<>>
    /\ y = state
    /\ _xa = state
    /\ yr_dict = NoAttributes
    /\ pr = parameters
    /\ roots = 0
    /\ scope = "out"
    /\ kwargs_done = {}
    /\ oldy = <<>>
    /\ oldpar = <<>>
    /\ y0 = <<>>
    /\ p0 = <<>>
    /\ outcome = "none"
    /\ dirty = FALSE
    /\ wrote = <<>>
    /\ read = <<>>
    /\ lastset = FALSE
    /\ clamped = [kind |-> "none", kw |-> NoAttributes, open |-> FALSE,
                  written |-> FALSE, pwrote |-> <<>>, v |-> <<>>, rhs |-> <<>>,
                  dyn |-> <<>>]
    /\ clamped_y = <<>>
    /\ clamped_xa = <<>>
    /\ asked = {}

\* The model of the example, at rest.
VdpDtype == [y |-> <<"x", "y">>, p |-> <<"epsilon">>]
InitExample == InitView(VdpDtype, <<0, 0>>, <<1>>)

\* ------------------------------------------------------ clamp, dynclamp
\* Names passed to clamp as keywords and to dynclamp as V and ion: the state
\* fields and the name of a parameter.
ClampKeys == {"x", "y", "epsilon"}

\* The keyword arguments of a clamp call: values for some of the names.
ClampKwargs == UNION { [S -> Values] : S \in SUBSET ClampKeys }

\* The layouts clamped models are derived from: the van der Pol example and a
\* model whose parameter is a hard-coded stimulus.
ClampDtypes ==
    { [y |-> <<"x", "y">>, p |-> <<"epsilon">>],
      [y |-> <<"x", "y">>, p |-> <<"stim_amplitude">>] }

\* y = np.array(self.y).view(self.dtype.y); for k, v in kwargs.items(): y[k] = v
\* The fields are distinct, so the order of the assignments does not matter.
ClampedInitial(state, fields, kw) ==
    [i \in DOMAIN state |-> IF fields[i] \in DOMAIN kw THEN kw[fields[i]]
                            ELSE state[i]]

\* if "stim_amplitude" in clamped.dtype.p.names: clamped.pr.stim_amplitude = 0
\* on the parameter array that the derived model shares with the original.
StimulusOff(parameters, fields) ==
    IF "stim_amplitude" \in names(fields)
    THEN setfield(parameters, fields, "stim_amplitude", 0)
    ELSE parameters

\* The states the solver of a derived model may leave in its buffer after
\* integrating from state, the right-hand side returning derivative 0 for the
\* fields in zeroed. The right-hand side pins those fields in the copy y_ that
\* it passes on, not in the solver's state ("CVODE forbids modifying the state
\* directly ... but may modify state variables even if ydot is always 0").
SolverOutcomes(state, fields, zeroed) == Arrays(fields)

\* The value of the variable v of clamp when its right-hand side is called.
\*   v = np.array(kwargs.values())       before "def clamped", which uses v
\*   for k, v in kwargs.items(): ...     after it, binding the same variable
\* so that v is the value of the last item of kwargs.items(), whichever item
\* the dictionary puts last; with no keyword argument it is the empty array.
\* The value is written <<value>>, the empty array <<>>.
ClosureValues(kw) ==
    IF DOMAIN kw = {} THEN {<<>>} ELSE { <<kw[k]>> : k \in DOMAIN kw }

\* y_ = np.copy(y); y_[i] = v in the right-hand side of a model derived by
\* clamp, i the indices of the names in kwargs.keys(): the scalar v is written
\* at every index of i.
Pinned(work, fields, kw, v) ==
    [j \in DOMAIN work |-> IF fields[j] \in DOMAIN kw THEN v[1] ELSE work[j]]

\* As ClampCall, with the derived model built from the names that are state
\* fields and the others ignored.
ClampCallLenient(kw) ==
    /\ scope = "out"
    /\ ~clamped.open
    /\ LET known == [k \in DOMAIN kw \cap names(dtype.y) |-> kw[k]]
       IN  /\ \E v \in ClosureValues(known) :
                 clamped' = [kind |-> "clamp", kw |-> known, open |-> TRUE,
                             written |-> FALSE, pwrote |-> <<>>, v |-> v,
                             rhs |-> <<>>, dyn |-> <<>>]
           /\ clamped_y' = ClampedInitial(y, dtype.y, known)
           /\ clamped_xa' = ClampedInitial(y, dtype.y, known)
    /\ pr' = StimulusOff(pr, dtype.p)
    /\ outcome' = "none"
    /\ asked' = DOMAIN kw
    /\ y0' = y
    /\ p0' = pr
    /\ dirty' = FALSE
    /\ wrote' = <<>>
    /\ read' = <<>>
    /\ UNCHANGED <<jobVars, args, dtype, bound, cvode_y, y, _xa, yr_dict, roots, scope, kwargs_done,
                   oldy, oldpar, lastset>>

\* with self.clamp(**kw) as clamped: up to the yield.
\*   i = np.array([self.dtype.y.names.index(k) for k in kwargs.keys()])
\* raises ValueError for a name that is no state field, before anything else.
ClampCall(kw) ==
    /\ scope = "out"
    /\ ~clamped.open
    /\ IF DOMAIN kw \subseteq names(dtype.y)
       THEN /\ \E v \in ClosureValues(kw) :
                  clamped' = [kind |-> "clamp", kw |-> kw, open |-> TRUE,
                              written |-> FALSE, pwrote |-> <<>>, v |-> v,
                              rhs |-> <<>>, dyn |-> <<>>]
            /\ clamped_y' = ClampedInitial(y, dtype.y, kw)
            /\ clamped_xa' = ClampedInitial(y, dtype.y, kw)
            /\ pr' = StimulusOff(pr, dtype.p)
            /\ outcome' = "none"
       ELSE /\ outcome' = "ValueError"
            /\ UNCHANGED <<clamped, clamped_y, clamped_xa, pr>>
    /\ asked' = DOMAIN kw
    /\ y0' = y
    /\ p0' = pr
    /\ dirty' = FALSE
    /\ wrote' = <<>>
    /\ read' = <<>>
    /\ UNCHANGED <<jobVars, args, dtype, bound, cvode_y, y, _xa, yr_dict, roots, scope, kwargs_done,
                   oldy, oldpar, lastset>>

\* The parameters from which dynclamp computes its default scale.
ScaleFields == {"Acap", "Cm", "Vmyo", "F"}

\* scale = p.Acap * p.Cm / (p.Vmyo * p.F), for parameters whose quotient is a
\* whole number (the only ones the model is run with).
DefaultScale(parameters, fields) ==
    (getfield(parameters, fields, "Acap") * getfield(parameters, fields, "Cm"))
        \div (getfield(parameters, fields, "Vmyo") * getfield(parameters, fields, "F"))

\* with self.dynclamp(setpoint, R, V, ion, scale) as clamped: up to the yield.
\*   if scale is None: p = self.pr; scale = p.Acap * p.Cm / (p.Vmyo * p.F)
\* raises AttributeError for parameters without these fields;
\*   iV = self.dtype.y.names.index(V); iion = self.dtype.y.names.index(ion)
\* raise ValueError for a name that is no state field. No field is pinned.
\* None is written <<>>, a scale that is given <<scale>>.
DynclampCall(setpoint, R, V, ion, scale) ==
    /\ scope = "out"
    /\ ~clamped.open
    /\ IF scale = <<>> /\ ~(ScaleFields \subseteq names(dtype.p))
       THEN /\ outcome' = "AttributeError"
            /\ UNCHANGED <<clamped, clamped_y, clamped_xa, pr>>
       ELSE IF {V, ion} \subseteq names(dtype.y)
       THEN /\ clamped' = [kind |-> "dynclamp", kw |-> NoAttributes,
                            open |-> TRUE, written |-> FALSE, pwrote |-> <<>>,
                            v |-> <<>>, rhs |-> <<>>,
                            dyn |-> [setpoint |-> setpoint, R |-> R,
                                     iV |-> offset(dtype.y, V),
                                     iion |-> offset(dtype.y, ion),
                                     given |-> scale,
                                     scale |-> IF scale = <<>>
                                               THEN DefaultScale(pr, dtype.p)
                                               ELSE scale[1]]]
            /\ clamped_y' = y
            /\ clamped_xa' = y
            /\ pr' = StimulusOff(pr, dtype.p)
            /\ outcome' = "none"
       ELSE /\ outcome' = "ValueError"
            /\ UNCHANGED <<clamped, clamped_y, clamped_xa, pr>>
    /\ asked' = {V, ion}
    /\ y0' = y
    /\ p0' = pr
    /\ dirty' = FALSE
    /\ wrote' = <<>>
    /\ read' = <<>>
    /\ UNCHANGED <<jobVars, args, dtype, bound, cvode_y, y, _xa, yr_dict, roots, scope, kwargs_done,
                   oldy, oldpar, lastset>>

\* As dynclamped_f_ode, with the current taken from the ion without the scale.
dynclamped_f_odeUnscaled(work, dyn, deriv, status) ==
    LET I_app == (work[dyn.iV] - dyn.setpoint) \div dyn.R
        ydotV == [deriv EXCEPT ![dyn.iV] = @ - I_app]
    IN  [y    |-> work,
         y_   |-> work,
         ydot |-> [ydotV EXCEPT ![dyn.iion] = @ - I_app],
         flag |-> 0]

\* The right-hand side "dynclamped(t, y, ydot, f_data)" of a model derived by
\* dynclamp, called with working state work, when the origin's right-hand side
\* writes deriv into ydot and returns status:
\*   self.f_ode(t, y, ydot, f_data)       (its return value is dropped)
\*   I_app = (y[iV] - setpoint) / R
\*   ydot[iV] -= I_app
\*   ydot[iion] -= I_app * scale
\*   return 0
\* for working states whose I_app is a whole number. The result is
\* [y, y_, ydot, flag] as for clamped_f_ode; the origin is passed y itself.
dynclamped_f_ode(work, dyn, deriv, status) ==
    LET I_app == (work[dyn.iV] - dyn.setpoint) \div dyn.R
        ydotV == [deriv EXCEPT ![dyn.iV] = @ - I_app]
    IN  [y    |-> work,
         y_   |-> work,
         ydot |-> [ydotV EXCEPT ![dyn.iion] = @ - I_app * dyn.scale],
         flag |-> 0]

\* The solver of a model derived by dynclamp calls its right-hand side with
\* working state work; rhs is recorded as by ClampedRhs.
DynclampedRhs(work, deriv, status) ==
    /\ clamped.open
    /\ clamped.kind = "dynclamp"
    /\ (work[clamped.dyn.iV] - clamped.dyn.setpoint) % clamped.dyn.R = 0
    /\ LET r == dynclamped_f_ode(work, clamped.dyn, deriv, status)
       IN  clamped' = [clamped EXCEPT
                         !.rhs = <<work, r.y_, r.y, deriv, r.ydot, status, r.flag>>]
    /\ UNCHANGED <<jobVars, viewVars, clamped_y, clamped_xa, asked>>

\* ydot[i] = 0 in the right-hand side of a model derived by clamp.
Zeroed(ydot, fields, kw) ==
    [j \in DOMAIN ydot |-> IF fields[j] \in DOMAIN kw THEN 0 ELSE ydot[j]]

\* As clamped_f_ode, with the clamped values written into the solver's own
\* working state instead of a copy of it.
clamped_f_odeInPlace(work, fields, kw, v, deriv, status) ==
    [y    |-> Pinned(work, fields, kw, v),
     y_   |-> Pinned(work, fields, kw, v),
     ydot |-> Zeroed(deriv, fields, kw),
     flag |-> 0]

\* The right-hand side "clamped(t, y, ydot, f_data)" of a model derived by
\* clamp, called with working state work, when the origin's right-hand side
\* writes deriv into ydot and returns status:
\*   y_ = np.copy(y); y_[i] = v
\*   self.f_ode(t, y_, ydot, f_data)      (its return value is dropped)
\*   ydot[i] = 0
\*   return 0
\* The result is [y, y_, ydot, flag]: the working state afterwards, the array
\* passed to the origin, the derivatives and the value returned.
clamped_f_ode(work, fields, kw, v, deriv, status) ==
    [y    |-> work,
     y_   |-> Pinned(work, fields, kw, v),
     ydot |-> Zeroed(deriv, fields, kw),
     flag |-> 0]

\* The solver of a model derived by clamp with one or more fields calls its
\* right-hand side with working state work; the origin's right-hand side gives
\* derivatives deriv and returns status.
\* rhs records <<work, the array passed to the origin's f_ode, the working
\* state afterwards, deriv, the derivatives returned, status, the value
\* returned>>.
ClampedRhs(work, deriv, status) ==
    /\ clamped.open
    /\ clamped.kind = "clamp"
    /\ DOMAIN clamped.kw # {}
    /\ LET r == clamped_f_ode(work, dtype.y, clamped.kw, clamped.v, deriv, status)
       IN  clamped' = [clamped EXCEPT
                         !.rhs = <<work, r.y_, r.y, deriv, r.ydot, status, r.flag>>]
    /\ UNCHANGED <<jobVars, viewVars, clamped_y, clamped_xa, asked>>

\* As ClampedIntegrate, for a derived model constructed on the original's
\* state buffer instead of a copy of it.
ClampedIntegrateShared(final) ==
    /\ clamped.open
    /\ final \in SolverOutcomes(clamped_y, dtype.y, DOMAIN clamped.kw)
    /\ clamped_y' = final
    /\ y' = final
    /\ UNCHANGED <<jobVars, args, dtype, bound, cvode_y, _xa, yr_dict, pr, roots, scope,
                   kwargs_done, oldy, oldpar, y0, p0, outcome, dirty, wrote, read,
                   lastset, clamped, clamped_xa, asked>>

\* clamped.integrate(...) in the body: the derived model's solver leaves its
\* final state in clamped.y.
ClampedIntegrate(final) ==
    /\ clamped.open
    /\ final \in SolverOutcomes(clamped_y, dtype.y, DOMAIN clamped.kw)
    /\ clamped_y' = final
    /\ UNCHANGED <<jobVars, viewVars, clamped, clamped_xa, asked>>

\* clamped.yr.<attr> = val in the body, attr a state field.
ClampedSetAttr(attr, val) ==
    /\ clamped.open
    /\ attr \in names(dtype.y)
    /\ LET r == __setattr__(clamped_y, clamped_xa, NoAttributes, dtype.y, attr, val)
       IN  /\ clamped_y' = r.x
           /\ clamped_xa' = r.xa
    /\ clamped' = [clamped EXCEPT !.written = TRUE]
    /\ UNCHANGED <<jobVars, viewVars, asked>>

\* As ClampedParameters, for a derived model constructed with a copy of the
\* original's parameters.
ClampedParametersCopied(parameters, k, val) == parameters

\* clamped.pr.<k> = val: clamped.pr is the array passed to the constructor,
\*   clamped = Namedcvodeint(clamped, self.t, y, self.pr, ...)    (self.pr = p)
\* which is the original's, so that the write is a write to self.pr. The
\* result is self.pr afterwards.
ClampedParameters(parameters, k, val) == setfield(parameters, dtype.p, k, val)

\* clamped.pr.<k> = val in the body.
ClampedWriteParameter(k, val) ==
    /\ clamped.open
    /\ k \in names(dtype.p)
    /\ pr' = ClampedParameters(pr, k, val)
    /\ clamped' = [clamped EXCEPT !.pwrote = <<k, val>>]
    /\ UNCHANGED <<jobVars, args, dtype, bound, cvode_y, y, _xa, yr_dict, roots, scope, kwargs_done,
                   oldy, oldpar, y0, p0, outcome, dirty, wrote, read, lastset,
                   clamped_y, clamped_xa, asked>>

\* for k in clamped.dtype.y.names: if k in self.dtype.y.names:
\*     setattr(self.yr, k, getattr(clamped.yr, k))
\* applied to m = [y, xa, dict, cxa] for the fields ks that are left; the
\* derived model has the layout of the original.
RECURSIVE CopyBack(_, _, _)
CopyBack(m, cy, ks) ==
    IF ks = <<>> THEN m
    ELSE LET g == __getattr__(cy, m.cxa, NoAttributes, dtype.y, Head(ks))
             r == __setattr__(m.y, m.xa, m.dict, dtype.y, Head(ks), g.ret)
         IN  CopyBack([y |-> r.x, xa |-> r.xa, dict |-> r.dict, cxa |-> g.xa],
                      cy, Tail(ks))

\* As ClampFinally, with nothing copied back.
ClampFinallyNothing ==
    [y |-> _x, xa |-> _xa, dict |-> yr_dict, cxa |-> clamped_xa]

\* finally: the copy of the derived model's state into the original, through
\* self.yr (the link the constructor made, or else an object that is none of
\* the model's).
ClampFinally ==
    IF bound.yr = "original"
    THEN CopyBack([y |-> _x, xa |-> _xa, dict |-> yr_dict, cxa |-> clamped_xa],
                  clamped_y, dtype.y)
    ELSE [y |-> _x, xa |-> _xa, dict |-> yr_dict, cxa |-> clamped_xa]

\* The body of a clamp or dynclamp scope ends, by returning or by raising
\* (raised), and the scope is left.
ClampExit(raised) ==
    /\ clamped.open
    /\ LET m == ClampFinally
       IN  /\ Set_x(m.y)
           /\ _xa' = m.xa
           /\ yr_dict' = m.dict
           /\ clamped_xa' = m.cxa
    /\ clamped' = [clamped EXCEPT !.open = FALSE]
    /\ outcome' = IF raised THEN "clamp raised" ELSE "clamp returned"
    /\ dirty' = (y # clamped_y)
    /\ lastset' = TRUE
    /\ wrote' = <<>>
    /\ read' = <<>>
    /\ UNCHANGED <<jobVars, args, dtype, bound, pr, roots, scope, kwargs_done, oldy, oldpar,
                   y0, p0, clamped_y, asked>>

\* ---------------------------------------------------------- specifications
InitSettings(c, n, f) ==
    /\ d = c
    /\ Nsims = n
    /\ jobfile = f
    /\ timeout = {}
    /\ error = {}
    /\ redone = {}
    /\ lock = 0
    /\ pc = [w \in Workers |-> "exists"]
    /\ jobID = [w \in Workers |-> 0]
    /\ issued = {}
    /\ completed = {}
    /\ quiet = 0
    /\ created = {}

\* The doctest's settings.
InitJobs(n, f) == InitSettings(Settings, n, f)

\* No jobfile yet / the jobfile as its creation leaves it.
NoJobfile == [exists |-> FALSE, text |-> <<>>]
NewJobfile == [exists |-> TRUE, text |-> str(0)]

\* Creation of the jobfile by a call that did not find it.
CreateJobfile(w) ==
    \/ CreateJobfileOpen(w)
    \/ CreateJobfileWrite(w)

\* The with Lock(...) block of find_jobID.
CriticalSection(w) ==
    \/ LockEnter(w)
    \/ ReadJobfile(w)
    \/ FirstPassOpen(w)
    \/ FirstPassTouch(w)
    \/ FirstPassWrite(w)
    \/ ScanRedo(w)
    \/ ErrorRedoTouch(w)
    \/ ErrorRedoMove(w)
    \/ TimeoutRedoTouch(w)
    \/ LockExit(w)

\* The driver's statements around its find_jobID call.
Driver(w) ==
    \/ ReplicateDone(w)
    \/ ReplicateRaises(w)
    \/ WriteErrorfile(w)
    \/ TaskStart(w)

\* Several drivers sharing one jobfile, started before the jobfile exists.
Init == InitJobs(NsimsMany, NoJobfile) /\ InitExample

Next ==
    \E w \in Workers :
        \/ CreateJobfileCheck(w)
        \/ CreateJobfile(w)
        \/ CriticalSection(w)
        \/ LockTimeout(w)
        \/ Driver(w)

Spec == Init /\ [][Next]_vars

\* Several drivers started on a jobfile that an earlier call has created.
InitLeases == InitJobs(NsimsMany, NewJobfile) /\ InitExample

NextLeases ==
    \E w \in Workers :
        \/ CreateJobfileCheck(w)
        \/ CriticalSection(w)
        \/ Driver(w)

SpecLeases == InitLeases /\ [][NextLeases]_vars

\* Several drivers on an existing jobfile, under settings that differ in the
\* stem and the directory of the jobfile, the stem of the error files and the
\* directory scanned.
Configurations ==
    {c \in [jobfile : {Settings.jobfile, [dir |-> ".", name |-> <<"r", "u", "n">>],
                                         [dir |-> "out", name |-> <<"j", "o", "b">>]},
            errorfile : {Settings.errorfile, [dir |-> ".", name |-> <<"e", "r", "r">>]},
            lockfile : {Settings.lockfile},
            SimID : {".", "out"}] : TRUE}

InitPaths ==
    /\ \E c \in Configurations : InitSettings(c, NsimsMany, NewJobfile)
    /\ InitExample

SpecPaths == InitPaths /\ [][NextLeases]_vars

\* Several drivers started before the jobfile exists, each running until it
\* leaves its while loop and each scheduled weakly fairly: a driver that can go
\* on does so eventually.  No further array task is started, no driver is
\* killed, and the lock is never held for max_wait.
Run(w) ==
    \/ CreateJobfileCheck(w)
    \/ CreateJobfile(w)
    \/ CriticalSection(w)
    \/ ReplicateDone(w)
    \/ ReplicateRaises(w)
    \/ WriteErrorfile(w)

NextFair == \E w \in Workers : Run(w)

SpecFair ==
    /\ Init
    /\ [][NextFair]_vars
    /\ \A w \in Workers : WF_vars(Run(w))

\* The process of worker w ends inside the with Lock(...) block of find_jobID
\* (killed by the queue system, node failure): nothing buffered is written and
\* no statement of the block runs any more.  Whether the lock it held is given
\* up with the process is the lock's matter; both outcomes are taken.
Kill(w) ==
    /\ pc[w] \in {"read", "fp_open", "fp_touch", "fp_write", "scan",
                  "err_touch", "err_move", "to_touch", "return"}
    /\ pc' = [pc EXCEPT ![w] = "killed"]
    /\ \E l \in {0, lock} : lock' = l
    /\ UNCHANGED <<viewVars, clampVars, d, created, Nsims, jobfile, timeout, error, redone,
                   jobID, issued, completed, quiet>>

\* Several drivers on an existing jobfile, any of which can be killed inside
\* the critical section.
NextCrash ==
    \E w \in Workers :
        \/ CreateJobfileCheck(w)
        \/ CriticalSection(w)
        \/ LockTimeout(w)
        \/ Driver(w)
        \/ Kill(w)

SpecCrash == InitLeases /\ [][NextCrash]_vars

\* Several drivers on an existing jobfile, none of whose replicates raises and
\* none of which is killed.
NextSound ==
    \E w \in Workers :
        \/ CreateJobfileCheck(w)
        \/ CriticalSection(w)
        \/ ReplicateDone(w)
        \/ WriteErrorfile(w)
        \/ TaskStart(w)

SpecSound == InitLeases /\ [][NextSound]_vars

\* One driver whose replicates all succeed, for any d['Nsims'] up to NsimsSolo.
InitSolo == (\E n \in 1..NsimsSolo : InitJobs(n, NoJobfile)) /\ InitExample

NextSolo ==
    \/ CreateJobfileCheck(1)
    \/ CreateJobfileOpen(1)
    \/ CreateJobfileWrite(1)
    \/ LockEnter(1)
    \/ ReadJobfile(1)
    \/ FirstPassOpen(1)
    \/ FirstPassTouch(1)
    \/ FirstPassWrite(1)
    \/ ScanRedo(1)
    \/ LockExit(1)
    \/ ReplicateDone(1)

SpecSolo == InitSolo /\ [][NextSolo]_vars

\* One model, used by code that reads and writes it by name and directly,
\* integrates it, and opens autorestore scopes on it, one at a time.
InitModel ==
    /\ InitJobs(NsimsMany, NoJobfile)
    /\ \E dt \in Dtypes : \E state \in Arrays(dt.y) : \E parameters \in Arrays(dt.p) :
          InitView(dt, state, parameters)

NextModel ==
    \/ \E attr \in Attrs : \E val \in Values : SetAttr(attr, val)
    \/ \E attr \in Attrs : GetAttr(attr)
    \/ \E i \in DOMAIN y : \E val \in Values : WriteBuffer(i, val)
    \/ \E k \in Keys : \E val \in Values : WriteParameter(k, val)
    \/ \E final \in Arrays(dtype.y) : Integrate(final)
    \/ \E n \in 0..MaxRoots : SetRoots(n)
    \/ \E _p \in {<<>>} \cup Arrays(dtype.p) :
       \E _y \in {<<>>} \cup Arrays(dtype.y) : AutorestoreCall(_p, _y)
    \/ \E k \in Keys : \E v \in Values : AutorestoreNamed(k, v)
    \/ AutorestoreYield
    \/ \E raised \in BOOLEAN : AutorestoreReset(raised)
    \/ \E raised \in BOOLEAN : AutorestoreExit(raised)

SpecModel == InitModel /\ [][NextModel]_vars

\* One model whose named view is read field by field and as a whole record.
NextArray ==
    \/ \E attr \in Attrs : \E val \in Values : SetAttr(attr, val)
    \/ \E attr \in Attrs : GetAttr(attr)
    \/ \E i \in DOMAIN y : \E val \in Values : WriteBuffer(i, val)
    \/ \E final \in Arrays(dtype.y) : Integrate(final)
    \/ ToArray

SpecArray == InitModel /\ [][NextArray]_vars

\* One model whose autorestore scopes are left with RootInit(0) either
\* returning or raising.
NextFault ==
    \/ \E i \in DOMAIN y : \E val \in Values : WriteBuffer(i, val)
    \/ \E k \in Keys : \E val \in Values : WriteParameter(k, val)
    \/ \E _p \in {<<>>} \cup Arrays(dtype.p) :
       \E _y \in {<<>>} \cup Arrays(dtype.y) : AutorestoreCall(_p, _y)
    \/ \E k \in Keys : \E v \in Values : AutorestoreNamed(k, v)
    \/ AutorestoreYield
    \/ \E raised \in BOOLEAN : AutorestoreReset(raised)
    \/ AutorestoreResetFaults
    \/ \E raised \in BOOLEAN : AutorestoreExit(raised)

SpecFault == InitModel /\ [][NextFault]_vars

\* The model of the example used by code that also rebinds its attributes.
InitRebind == InitJobs(NsimsMany, NoJobfile) /\ InitExample

NextRebind ==
    \/ \E k \in {"y", "yr", "pr"} :
       \E content \in {<<>>} \cup Arrays(dtype.y) \cup Arrays(dtype.p) :
          Rebind(k, content)
    \/ \E attr \in Attrs : \E val \in Values : SetAttr(attr, val)
    \/ \E i \in DOMAIN y : \E val \in Values : WriteBuffer(i, val)
    \/ \E k \in Keys : \E val \in Values : WriteParameter(k, val)
    \/ \E final \in Arrays(dtype.y) : Integrate(final)
    \/ \E _y \in {<<>>} \cup Arrays(dtype.y) : AutorestoreCall(<<>>, _y)
    \/ AutorestoreYield
    \/ \E raised \in BOOLEAN : AutorestoreReset(raised)
    \/ \E raised \in BOOLEAN : AutorestoreExit(raised)

SpecRebind == InitRebind /\ [][NextRebind]_vars

\* One model and the models derived from it by clamp and dynclamp, one at a
\* time, used by code that also writes the original's state directly.
InitClamp ==
    /\ InitJobs(NsimsMany, NoJobfile)
    /\ \E dt \in ClampDtypes : \E state \in Arrays(dt.y) :
       \E parameters \in Arrays(dt.p) : InitView(dt, state, parameters)

NextClamp ==
    \/ \E kw \in ClampKwargs : ClampCall(kw)
    \/ \E V, ion \in ClampKeys : \E scale \in {<<>>, <<1>>} :
          DynclampCall(0, 1, V, ion, scale)
    \/ \E final \in Arrays(dtype.y) : ClampedIntegrate(final)
    \/ \E attr \in Attrs : \E val \in Values : ClampedSetAttr(attr, val)
    \/ \E k \in names(dtype.p) : \E val \in Values : ClampedWriteParameter(k, val)
    \/ \E i \in DOMAIN y : \E val \in Values : WriteBuffer(i, val)
    \/ \E raised \in BOOLEAN : ClampExit(raised)

SpecClamp == InitClamp /\ [][NextClamp]_vars

\* What a right-hand side returns: 0, or nonzero for a failure.
Statuses == {0, 1}

\* A model from which clamped models are derived, whose solvers call their
\* right-hand sides while the with block is open.
NextRhs ==
    \/ \E kw \in ClampKwargs : ClampCall(kw)
    \/ \E work, deriv \in Arrays(dtype.y) : \E status \in Statuses :
          ClampedRhs(work, deriv, status)
    \/ \E final \in Arrays(dtype.y) : ClampedIntegrate(final)
    \/ \E raised \in BOOLEAN : ClampExit(raised)

SpecRhs == InitClamp /\ [][NextRhs]_vars

\* A cell model with membrane potential V and ion concentration Ki, whose
\* parameters give a whole default scale, and the models derived from it by
\* dynclamp, whose solvers call their right-hand sides.
DynDtype == [y |-> <<"V", "Ki">>, p |-> <<"Acap", "Cm", "Vmyo", "F">>]

DynParameters ==
    { parameters \in [1..4 -> 1..MaxScale] :
        (parameters[1] * parameters[2]) % (parameters[3] * parameters[4]) = 0 }

InitDyn ==
    /\ InitJobs(NsimsMany, NoJobfile)
    /\ \E parameters \in DynParameters : InitView(DynDtype, <<0, 0>>, parameters)

NextDyn ==
    \/ \E setpoint \in Values : \E R \in 1..MaxScale :
       \E V, ion \in {"V", "Ki", "nosuch"} : \E scale \in {<<>>, <<3>>} :
          DynclampCall(setpoint, R, V, ion, scale)
    \/ \E work \in [DOMAIN y -> 0..MaxScale] : \E deriv \in Arrays(dtype.y) :
       \E status \in Statuses : DynclampedRhs(work, deriv, status)
    \/ \E raised \in BOOLEAN : ClampExit(raised)

SpecDyn == InitDyn /\ [][NextDyn]_vars

\* ------------------------------------------------------------------ claims
\* Worker w has been given id k by find_jobID and has not released it.
Holds(w, k) == pc[w] = "work" /\ jobID[w] = k

\* The step with which worker w's find_jobID decides its redo path.
ScanStep(w) == pc[w] = "scan" /\ pc'[w] # "scan"

\* Worker w is inside the with Lock(...) block of find_jobID.
InCriticalSection(w) ==
    pc[w] \in {"read", "fp_open", "fp_touch", "fp_write", "scan",
               "err_touch", "err_move", "to_touch", "return"}

C2_AscendingFirstPass ==
    pc[1] \in {"return", "work", "done"} =>
        /\ jobID[1] = Cardinality(completed)
        /\ completed = 0..(jobID[1] - 1)
        /\ pc[1] = "work" => jobID[1] < Nsims
        /\ pc[1] = "done" => jobID[1] = Nsims

C2_Witness ==
    /\ pc[1] = "done"
    /\ Nsims = NsimsSolo
    /\ jobID[1] = Nsims
    /\ completed = 0..(Nsims - 1)

\* C3: once every id has been issued, a call that finds an ErrorMarker takes the
\* error redo with the id of an existing ErrorMarker (of the only one, when
\* there is one), whatever TimeoutMarkers exist; it takes the timeout redo only
\* when no ErrorMarker exists; and the id decided on is the one it returns.
C3_ErrorBeforeTimeout ==
    [][\A w \in Workers :
          /\ ScanStep(w) =>
                /\ error # {} => (pc'[w] = "err_touch" /\ jobID'[w] \in error)
                /\ pc'[w] = "to_touch" => error = {}
          /\ pc[w] \in {"err_touch", "err_move", "to_touch", "return"} =>
                jobID'[w] = jobID[w]
      ]_vars

C3_Witness ==
    \E w \in Workers :
        /\ pc[w] = "err_touch"
        /\ error = {jobID[w]}
        /\ timeout \ {jobID[w]} # {}

\* C4: once every id has been issued, a call that finds at least one
\* TimeoutMarker and no ErrorMarker takes the timeout redo with one id whose
\* TimeoutMarker exists, and does not return the sentinel Nsims.
C4_TimeoutRedo ==
    [][\A w \in Workers :
          (ScanStep(w) /\ timeout # {} /\ error = {}) =>
              /\ pc'[w] = "to_touch"
              /\ jobID'[w] \in timeout
              /\ jobID'[w] < Nsims
      ]_vars

C4_Witness ==
    \E w \in Workers :
        /\ pc[w] = "to_touch"
        /\ error = {}
        /\ jobID[w] \in timeout

C6_SentinelIdempotent ==
    \A w \in Workers :
        quiet = w => pc[w] \notin {"fp_open", "fp_touch", "err_touch", "to_touch"}

\* C7: end_jobID(k) that returns normally has deleted k's TimeoutMarker and
\* nothing else; when the marker does not exist it raises OSError to its
\* caller, and the counter file and all markers are unchanged.
C7_ReleaseFault ==
    [][\A w \in Workers :
          (pc[w] = "work" /\ pc'[w] # "work") =>
              /\ jobID[w] \notin timeout => pc'[w] # "exists"
              /\ pc'[w] = "exists" =>
                    /\ jobID[w] \in timeout
                    /\ timeout' = timeout \ {jobID[w]}
                    /\ UNCHANGED <<jobfile, error, redone>>
              /\ pc'[w] = "oserror" =>
                    /\ jobID[w] \notin timeout
                    /\ UNCHANGED <<jobfile, timeout, error, redone>>
      ]_vars

\* A second release: the id's marker had been deleted by another holder.
C7_Witness ==
    \E w \in Workers :
        /\ pc[w] = "oserror"
        /\ jobID[w] \in completed

\* C8: after an autorestore scope is left, by its body returning or raising, the
\* state vector and the parameter vector equal their values when autorestore
\* was called, whatever the overrides and whatever the body did.
C8_Restored ==
    outcome \in {"returned", "raised"} => (y = y0 /\ pr = p0)

\* A body that raised, having left state or parameters changed, has been undone.
C8_Witness ==
    /\ outcome = "raised"
    /\ dirty
    /\ y = y0
    /\ pr = p0

\* C9: when autorestore raises for a keyword that names both or neither of a
\* state variable and a parameter, state and parameters are as they were before
\* the call.
C9_FaultBeforeMutation ==
    outcome = "TypeError" => (y = y0 /\ pr = p0)

C11_ReadSeesBuffer ==
    (read # <<>> /\ read[1] \in names(dtype.y)) =>
        read[2] = getfield(y, dtype.y, read[1])

\* A named read has returned the buffer's value although _xa was out of date,
\* the last operation on the view before it having been a named write.
C11_Witness ==
    /\ read # <<>>
    /\ read[1] \in names(dtype.y)
    /\ read[3] = <<>>
    /\ read[4]
    /\ read[5]
    /\ read[2] = getfield(y, dtype.y, read[1])

C13_ClampInvariant ==
    (clamped.kind = "clamp" /\ ~clamped.written) =>
        \A k \in DOMAIN clamped.kw :
            getfield(clamped_y, dtype.y, k) = clamped.kw[k]

\* C14: when a clamp or dynclamp scope has been left, by its body returning or
\* raising, every state field of the original holds the derived model's final
\* value of that field (the two have the same fields).
C14_CopiedBack ==
    outcome \in {"clamp returned", "clamp raised"} => y = clamped_y

\* A body that raised has been left, the derived model's state having differed
\* from the original's, and the original holds the derived model's state.
C14_Witness ==
    /\ outcome = "clamp raised"
    /\ dirty
    /\ y = clamped_y

\* C15: a clamp or dynclamp call that names something other than a state field
\* fails at once: no derived model is made, no body runs, and the original's
\* state and parameters are as before.
C15_UnknownFieldFault ==
    [][(~clamped.open /\ y0' # <<>> /\ ~(asked' \subseteq names(dtype.y))) =>
          /\ outcome' \in {"ValueError", "AttributeError"}
          /\ UNCHANGED <<y, _xa, yr_dict, pr, clamped, clamped_y, clamped_xa>>]_vars

\* A clamp call has failed for a name that is no state field.
C15_Witness ==
    /\ outcome = "ValueError"
    /\ ~(asked \subseteq names(dtype.y))
    /\ asked \cap names(dtype.y) # {}
    /\ ~clamped.open
    /\ y = y0
    /\ pr = p0

C18_WritesUnderLock ==
    [][(\/ jobfile' # jobfile
        \/ ~(timeout' \subseteq timeout)
        \/ redone' # redone
        \/ ~(error \subseteq error')) =>
           \E w \in Workers : lock = w /\ pc'[w] # pc[w]]_vars

\* C19: a find_jobID call that fails because the lock stayed held by another
\* beyond max_wait has written neither the counter file nor any marker.
C19_TimeoutChangedNothing ==
    \A w \in Workers : pc[w] = "locktimeout" => w \notin created

\* The replicates raise only finitely often.
FiniteFailures ==
    <>[][\A w \in Workers : ~(pc[w] = "work" /\ pc'[w] = "raised")]_vars

\* Every id has been released after a successful replicate, and every driver has
\* been returned Nsims and has left its loop.
AllDone ==
    /\ completed = 0..(Nsims - 1)
    /\ \A w \in Workers : pc[w] = "done" /\ jobID[w] = Nsims

C20_NonFieldFaults ==
    /\ DOMAIN yr_dict \subseteq names(dtype.y)
    /\ (read # <<>> /\ read[1] \notin names(dtype.y)) => read[2] = "AttributeError"

\* C21: no autorestore scope returns normally after working on, and restoring
\* into, an object that y, yr or pr was rebound to: a rebinding has raised a
\* fault by then.
C21_RebindingRejected ==
    outcome = "returned" => bound = Originals

\* C22: a parameter written through a clamp or dynclamp model is at once the
\* original's value of that parameter, and stays so after the scope is left.
C22_ParametersShared ==
    clamped.pwrote # <<>> =>
        getfield(pr, dtype.p, clamped.pwrote[1]) = clamped.pwrote[2]

\* A scope has been left whose body wrote, through the derived model, a value
\* the parameter did not have at entry; the original has it.
C22_Witness ==
    /\ ~clamped.open
    /\ outcome = "clamp returned"
    /\ clamped.pwrote # <<>>
    /\ getfield(pr, dtype.p, clamped.pwrote[1]) = clamped.pwrote[2]
    /\ getfield(p0, dtype.p, clamped.pwrote[1]) # clamped.pwrote[2]

C25_CounterSurvivesCrash ==
    ((\E w \in Workers : pc[w] = "killed") /\
     (\A w \in Workers : pc[w] \notin {"fp_touch", "fp_write"}))
        => (jobfile.exists /\ ~ValueError(jobfile.text))

\* C26: an id that was released after a successful replicate and has no error
\* file is returned by no find_jobID call, neither by the first pass nor by the
\* timeout redo.
C26_DoneIsTerminal ==
    [][\A w \in Workers :
          (pc[w] \in {"fp_write", "to_touch"} /\ pc'[w] = "return") =>
              ~(jobID[w] \in completed /\ jobID[w] \notin error)
      ]_vars

\* C27: an id whose replicate raised is next taken by the error redo: no
\* timeout redo takes an id whose holder's replicate has raised, also when the
\* holder has not yet written the error file.
C27_RaisedGoesToErrorRedo ==
    [][\A w \in Workers :
          (pc[w] = "scan" /\ pc'[w] = "to_touch") =>
              ~\E v \in Workers \ {w} :
                  pc[v] = "raised" /\ jobID[v] = jobID'[w]
      ]_vars

\* The value autorestore's arguments give to field k of a vector: the named
\* value if k was named, else the value in the wholesale override, else the
\* value the vector had when autorestore was called.
Requested(fields, k, wholesale, entry) ==
    IF k \in DOMAIN args.kwargs THEN args.kwargs[k]
    ELSE IF wholesale # <<>> THEN getfield(wholesale, fields, k)
    ELSE getfield(entry, fields, k)

C29_ResetBeforeRestore ==
    [][/\ (scope = "body" /\ scope' # "body") =>
             /\ scope' \in {"returning", "raising"}
             /\ roots' = 0
             /\ y' = y
             /\ pr' = pr
       /\ (scope \in {"returning", "raising"} /\ scope' # scope) =>
             /\ scope' = "out"
             /\ roots = 0
             /\ roots' = 0
             /\ y' = oldy
             /\ pr' = oldpar
      ]_vars

\* A body that raised has been left and the reset is done, while the state
\* and the parameters still differ from the snapshot.
C29_Witness ==
    /\ scope = "raising"
    /\ roots = 0
    /\ y # oldy
    /\ pr # oldpar

\* C30: for any one or more clamped fields, with possibly different values,
\* every call of the clamped right-hand side passes to the origin's right-hand
\* side a copy of the working state in which each clamped field holds its own
\* fixed value and every other field the solver-supplied value.
C30_EachFieldOwnValue ==
    clamped.rhs # <<>> =>
        \A j \in DOMAIN dtype.y :
            clamped.rhs[2][j] =
                IF dtype.y[j] \in DOMAIN clamped.kw
                THEN clamped.kw[dtype.y[j]]
                ELSE clamped.rhs[1][j]

\* C31: every call of the clamped right-hand side leaves the solver-supplied
\* working state as it was, returns derivative 0 for every clamped field, and
\* for every other field the derivative computed by the origin's right-hand
\* side.
C31_ClampedDerivatives ==
    (clamped.kind = "clamp" /\ clamped.rhs # <<>>) =>
        /\ clamped.rhs[3] = clamped.rhs[1]
        /\ \A j \in DOMAIN dtype.y :
              clamped.rhs[5][j] =
                  IF dtype.y[j] \in DOMAIN clamped.kw THEN 0 ELSE clamped.rhs[4][j]

\* A call made with a working state that has drifted from the clamped value,
\* the origin giving a nonzero derivative for the clamped field and for
\* another field.
C31_Witness ==
    /\ clamped.kind = "clamp"
    /\ clamped.rhs # <<>>
    /\ \E j, n \in DOMAIN dtype.y :
          /\ dtype.y[j] \in DOMAIN clamped.kw
          /\ dtype.y[n] \notin DOMAIN clamped.kw
          /\ clamped.rhs[1][j] # clamped.kw[dtype.y[j]]
          /\ clamped.rhs[2][j] # clamped.rhs[1][j]
          /\ clamped.rhs[3][j] = clamped.rhs[1][j]
          /\ clamped.rhs[4][j] # 0
          /\ clamped.rhs[5][j] = 0
          /\ clamped.rhs[5][n] # 0

\* C32: a model derived by clamp or dynclamp has its own state: the call that
\* constructs it and fixes the clamped fields, and every integration or write
\* of its state while the scope is open, leave the original's state vector as
\* it is; the original's state changes through the derived model only when the
\* scope is left.
C32_OwnStateCopy ==
    [][(clamped'.open /\
        (clamped' # clamped \/ clamped_y' # clamped_y \/ clamped_xa' # clamped_xa))
          => (y' = y /\ _xa' = _xa)
      ]_vars

\* A derived model, clamped to a value the original did not have, has been
\* integrated and written by name in the open scope; its state differs from
\* the original's, which is as it was when clamp was called.
C32_Witness ==
    /\ clamped.open
    /\ clamped.kind = "clamp"
    /\ clamped.written
    /\ \E k \in DOMAIN clamped.kw : getfield(y, dtype.y, k) # clamped.kw[k]
    /\ clamped_y # y
    /\ y = y0

\* The whole number q with q * den = num.
Quotient(num, den) ==
    CHOOSE q \in -(MaxScale * MaxScale)..(MaxScale * MaxScale) : q * den = num

\* C33: for every working state y the dynclamp right-hand side returns the
\* origin's derivatives with I_app = (y[V] - setpoint) / R subtracted from the
\* derivative of V and I_app * scale from the derivative of ion, all other
\* entries being the origin's; the working state is not modified; scale is
\* Acap*Cm/(Vmyo*F) of the parameters when it is not supplied.
C33_DynclampDerivatives ==
    (clamped.kind = "dynclamp" /\ clamped.rhs # <<>>) =>
        LET dyn == clamped.dyn
            work == clamped.rhs[1]
            I_app == Quotient(work[dyn.iV] - dyn.setpoint, dyn.R)
            scale == IF dyn.given # <<>> THEN dyn.given[1]
                     ELSE Quotient(getfield(p0, dtype.p, "Acap") * getfield(p0, dtype.p, "Cm"),
                                   getfield(p0, dtype.p, "Vmyo") * getfield(p0, dtype.p, "F"))
        IN  /\ clamped.rhs[3] = work
            /\ clamped.rhs[2] = work
            /\ \A j \in DOMAIN dtype.y :
                  clamped.rhs[5][j] =
                      clamped.rhs[4][j] - (IF j = dyn.iV THEN I_app ELSE 0)
                                        - (IF j = dyn.iion THEN I_app * scale ELSE 0)

\* A call of the right-hand side of a model derived by dynclamp without a
\* scale, V and ion being different fields, with a working state away from the
\* setpoint and a default scale other than 1.
C33_Witness ==
    /\ clamped.kind = "dynclamp"
    /\ clamped.rhs # <<>>
    /\ clamped.dyn.given = <<>>
    /\ clamped.dyn.scale > 1
    /\ clamped.dyn.R > 1
    /\ clamped.dyn.iV # clamped.dyn.iion
    /\ clamped.rhs[1][clamped.dyn.iV] # clamped.dyn.setpoint
    /\ clamped.rhs[5][clamped.dyn.iion] # clamped.rhs[4][clamped.dyn.iion]
    /\ clamped.rhs[5][clamped.dyn.iV] # clamped.rhs[4][clamped.dyn.iV]

\* C39: whenever the origin's right-hand side returns a nonzero status for a
\* call made by the right-hand side of a model derived by clamp or dynclamp,
\* that right-hand side returns nonzero too.
C39_FailurePropagates ==
    (clamped.rhs # <<>> /\ clamped.rhs[6] # 0) => clamped.rhs[7] # 0

\* C34: the integer in the jobfile stays within 0..Nsims and never decreases:
\* whenever the jobfile holds a number, that number is above every id that
\* find_jobID has returned so far, so that the first pass returns no id twice.
C34_CounterNeverDecreases ==
    (jobfile.exists /\ ~ValueError(jobfile.text)) =>
        /\ int(jobfile.text) \in 0..Nsims
        /\ \A k \in issued : k < int(jobfile.text)

\* C35: while no replicate has raised, no error file exists and no end_jobID
\* call has failed for a missing timeout file.
C35_NoErrorWithoutFailure ==
    /\ error = {}
    /\ \A w \in Workers : pc[w] # "oserror"

\* C36: for every setting of the jobfile, errorfile and SimID paths, a scan
\* that ends with the sentinel has found no marker on disk: no timeout file
\* made by find_jobID for an id not yet finished and no error file written by
\* a driver exists when the sentinel is chosen.
C36_MarkersFound ==
    [][\A w \in Workers :
          (pc[w] = "scan" /\ pc'[w] = "return") => (timeout = {} /\ error = {})]_vars

\* C37: when the reset of rootfinding made at the exit of an autorestore scope
\* raises, the state vector and the parameter vector have nevertheless been
\* set back to their values at the call by the time the caller gets that
\* exception.
C37_RestoredDespiteFault ==
    outcome = "RootInit raised" => (y = y0 /\ pr = p0)

\* C38: once a clamp or dynclamp scope whose body wrote no parameter has been
\* left, the origin's parameter vector is what it was before the scope was
\* opened, also for a model with a stim_amplitude parameter.  (p0 is kept
\* while the body works through the derived model only.)
C38_ParametersUntouched ==
    (outcome \in {"clamp returned", "clamp raised"} /\ clamped.pwrote = <<>> /\ p0 # <<>>)
        => pr = p0

\* C40: the array obtained from a Recarraylink through __array__ holds the
\* current contents of the buffer it is linked to, also when the buffer was
\* written directly since the last named read or write.
C40_ArrayIsCurrent ==
    (read # <<>> /\ read[1] = "__array__") => read[2] = _x

====
